---- MODULE Spec2Model ----
(***************************************************************************)
(* Model of streamlit_app.py: the document lookup, the report builder      *)
(* get_products_info_for_row and the UI block that adds the TOTAL row and  *)
(* the pallet summary.                                                     *)
(*                                                                         *)
(* Reading of the source.  Lines 87-135 are the body of the loop           *)
(* "for item in items:" of line 86; the file carries them one level to the *)
(* left of where Python needs them, and they are modelled as the loop body.*)
(* Line 98 reads parsed_net_weight, which the file never assigns: the      *)
(* attribute parsing that line 95 leaves out is modelled from the written  *)
(* specification (section 4.1) by the operator parsed_net_weight below.    *)
(*                                                                         *)
(* Numbers are fixed point, all non-negative:                              *)
(*   net weight           in 0.0001 kg                                     *)
(*   Total Weight (kg)    in 0.001 kg (round(.,3))                         *)
(*   Volume (m3)          in 0.00001 m3 (round(.,5)); dimensions in cm     *)
(*   Pallets by W / V     in 0.001 pallet (round(.,3))                     *)
(* round() is taken as round-half-even of the exact quotient; the inputs   *)
(* drawn below never sit on a tie, where binary floats decide.             *)
(***************************************************************************)
EXTENDS Integers, Sequences, FiniteSets

VARIABLES
    docNumbers,   \* df_docs['docNumber'], in fetch order
    doc_input,    \* the requested document number
    idx,          \* result of get_row_index_by_docnumber
    products,     \* df_docs.loc[idx].get('products')
    items,        \* the list iterated by line 86
    i,            \* number of items the loop has consumed
    grouped,      \* dict subcat -> rows, as a sequence in insertion order
    df_res,       \* the report DataFrame, as a sequence of rows
    summary,      \* the pallet summary record
    err,          \* the exception raised, [type, line], or NoErr
    nErrors,      \* number of st.error calls
    pc            \* position in the UI block

vars == <<docNumbers, doc_input, idx, products, items, i, grouped, df_res,
          summary, err, nErrors, pc>>

----------------------------------------------------------------------------
(* Bounds of the model *)

MaxItems == 2
MaxDocs == 2

----------------------------------------------------------------------------
(* Values *)

\* Python None / pandas NaN in a numeric position
Null == -1
\* the empty string "" in a numeric position
Blank == -2
\* a key the mapping does not hold (item.get("units", 0) tells it from None)
Absent == -3
\* Python None in a string position
NoneS == "None"

IsNum(x) == x >= 0

\* round-half-even of n / d, for n >= 0 and d > 0
RoundDiv(n, d) ==
    LET q == n \div d
        r == n % d
    IN  IF 2 * r < d THEN q
        ELSE IF 2 * r > d THEN q + 1
        ELSE IF q % 2 = 0 THEN q ELSE q + 1

CeilDiv(n, d) == (n + d - 1) \div d

Abs(x) == IF x < 0 THEN 0 - x ELSE x

PALLET_KG == 1400
PALLET_M3 == 2

DEFAULT_SUBCAT == "Sin linea de productos"

----------------------------------------------------------------------------
(* The catalog: fetch_all_products() and build_product_lookup *)

Attr(n, v) == [name |-> n, value |-> v]

\* what fetch_all_products returns
all_prods == <<
    [id |-> "P1", productId |-> NoneS, name |-> "Box", sku |-> "S2", stock |-> 10,
     attributes |-> <<Attr("Peso Neto", "2.5"), Attr("Product Line", "Boxes"),
                      Attr("Ancho", "10"), Attr("Alto", "20"), Attr("Fondo", "5")>>],
    [id |-> "P2", productId |-> NoneS, name |-> "Pallet", sku |-> "S1", stock |-> Null,
     attributes |-> <<Attr("Product Line", "Pallets"), Attr("Peso Neto", "1")>>],
    [id |-> NoneS, productId |-> "P3", name |-> NoneS, sku |-> NoneS, stock |-> 0,
     attributes |-> <<Attr("Peso Neto", "1"), Attr("Product Line", " ")>>],
    [id |-> "P4", productId |-> NoneS, name |-> "Crate", sku |-> "S1", stock |-> 5,
     attributes |-> <<Attr("Peso Neto", "abc"), Attr("Product Line", "Boxes")>>]
>>

\* p.get("id") or p.get("productId")
ProductKey(p) == IF p.id # NoneS /\ p.id # "" THEN p.id ELSE p.productId

RECURSIVE LookupFrom(_, _)
LookupFrom(prods, pid) ==
    \* the entry of the last product stored under pid (a later one overwrites)
    IF prods = <<>> THEN NoneS
    ELSE LET p == prods[Len(prods)]
         IN  IF ProductKey(p) = pid
             THEN [Product |-> p.name, SKU |-> p.sku,
                   StockDisponible |-> p.stock, Attributes |-> p.attributes]
             ELSE LookupFrom(SubSeq(prods, 1, Len(prods) - 1), pid)

LookupKeys(prods) == {ProductKey(prods[k]) : k \in DOMAIN prods}

build_product_lookup(prods) ==
    [pid \in LookupKeys(prods) |-> LookupFrom(prods, pid)]

lookup == build_product_lookup(all_prods)

----------------------------------------------------------------------------
(* Attribute parsing (left out of the file at line 95) *)

\* float(value) of an attribute value, in 0.0001 kg; Null when it does not parse
ParseWeight(s) ==
    CASE s = "2.5" -> 25000
      [] s = "1"   -> 10000
      [] OTHER     -> Null

RECURSIVE AttrValue(_, _)
AttrValue(attrs, n) ==
    IF attrs = <<>> THEN NoneS
    ELSE IF attrs[1].name = n THEN attrs[1].value
    ELSE AttrValue(Tail(attrs), n)

\* net weight: the "Peso Neto" attribute, else the line's own weight, else none
parsed_net_weight(attrs, item) ==
    LET a == AttrValue(attrs, "Peso Neto")
        w == IF a = NoneS THEN Null ELSE ParseWeight(a)
    IN  IF IsNum(w) THEN w
        ELSE IF IsNum(item.weight) THEN item.weight
        ELSE Null

\* the category the "Product Line" attribute names; the default when absent or blank
ProductLine(attrs) ==
    LET a == AttrValue(attrs, "Product Line")
    IN  IF a = NoneS \/ a = "" \/ a = " " THEN DEFAULT_SUBCAT ELSE a

\* TRUE when the catalog entry has numeric width, height and depth attributes
HasCatalogDims(attrs) ==
    /\ AttrValue(attrs, "Ancho") \in {"10"}
    /\ AttrValue(attrs, "Alto") \in {"20"}
    /\ AttrValue(attrs, "Fondo") \in {"5"}

----------------------------------------------------------------------------
(* The loop body of get_products_info_for_row, lines 87-135 *)

NoErr == [type |-> "none", line |-> 0]
TypeError(l) == [type |-> "TypeError", line |-> l]

\* line 88: productId unless it is None, else id
ItemPid(item) == IF item.productId # NoneS THEN item.productId ELSE item.id

\* line 89: item.get("units", 0)
ItemUnits(item) == IF item.units = Absent THEN 0 ELSE item.units

\* line 92
InCatalog(pid) == pid # NoneS /\ pid \in DOMAIN lookup

\* lines 93 and 101
ItemInfo(item) ==
    IF InCatalog(ItemPid(item)) THEN lookup[ItemPid(item)]
    ELSE [Product |-> NoneS, SKU |-> NoneS, StockDisponible |-> Null, Attributes |-> <<>>]

\* lines 96 and 102
ItemSku(item) == IF InCatalog(ItemPid(item)) THEN ItemInfo(item).SKU ELSE ""

\* lines 97 and 103: the lookup always holds the key, so the default 0 is never used
ItemStock(item) == IF InCatalog(ItemPid(item)) THEN ItemInfo(item).StockDisponible ELSE Blank

\* lines 98 and 104
ItemNetWeight(item) ==
    IF InCatalog(ItemPid(item)) THEN parsed_net_weight(ItemInfo(item).Attributes, item)
    ELSE IF IsNum(item.weight) /\ item.weight # 0 THEN item.weight ELSE 0

\* line 106
ProductName(item) ==
    IF ItemInfo(item).Product \notin {NoneS, ""} THEN ItemInfo(item).Product
    ELSE IF item.name \notin {NoneS, ""} THEN item.name
    ELSE "Sin descripcion"

\* a missing dimension imputed as 1 cm
VolumeImputed(ancho, alto, fondo) ==
    IF \E d \in {ancho, alto, fondo} : d # Null
    THEN RoundDiv((IF ancho = Null THEN 1 ELSE ancho) * (IF alto = Null THEN 1 ELSE alto)
                  * (IF fondo = Null THEN 1 ELSE fondo), 10)
    ELSE Null

\* lines 109-114, in 0.00001 m3 from cm
Volume(ancho, alto, fondo) ==
    IF Null \notin {ancho, alto, fondo}
    THEN RoundDiv(ancho * alto * fondo, 10)
    ELSE Null

\* truth value of a string: "not sku" is TRUE for None and ""
StrTruthy(s) == s \notin {NoneS, ""}

\* line 117 raises when stock >= units compares a number with None
InsufRaises(sku, stock, units) == StrTruthy(sku) /\ IsNum(stock) /\ ~IsNum(units)

\* line 117
Insuf(sku, stock, units) ==
    IF ~StrTruthy(sku) \/ (IsNum(stock) /\ stock >= units)
    THEN ""
    ELSE "STOCK INSUFICIENTE"

\* line 118 raises when abs(stock-units) has a None or "" operand
FaltaRaises(insuf, stock, units) == insuf # "" /\ (~IsNum(stock) \/ ~IsNum(units))

\* line 118
Falta(insuf, stock, units) == IF insuf = "" THEN 0 ELSE Abs(stock - units)

\* line 126 raises when net_w*units has a None operand
TotalWeightRaises(net_w, units) == ~IsNum(net_w) \/ ~IsNum(units)

\* line 126, in 0.001 kg from 0.0001 kg
TotalWeight(net_w, units) == RoundDiv(net_w * units, 10)

\* line 133
Subcat(item) == DEFAULT_SUBCAT

\* the exception lines 87-131 raise for the item, or NoErr
ItemError(item) ==
    LET units == ItemUnits(item)
        sku == ItemSku(item)
        stock == ItemStock(item)
    IN  IF InsufRaises(sku, stock, units) THEN TypeError(117)
        ELSE IF FaltaRaises(Insuf(sku, stock, units), stock, units) THEN TypeError(118)
        ELSE IF TotalWeightRaises(ItemNetWeight(item), units) THEN TypeError(126)
        ELSE NoErr

\* lines 121-131; the columns the dict lacks are NaN in the DataFrame; "line"
\* is not in the code: it records which item of the document the row came from
ItemData(item, k) ==
    LET units == ItemUnits(item)
        sku == ItemSku(item)
        stock == ItemStock(item)
        insuf == Insuf(sku, stock, units)
    IN  [Product |-> [mark |-> "name", text |-> ProductName(item)],
         SKU |-> sku,
         Units |-> units,
         NetWeight |-> ItemNetWeight(item),
         TotalWeight |-> TotalWeight(ItemNetWeight(item), units),
         Volume |-> Volume(item.width_cm, item.height_cm, item.depth_cm),
         StockDisponible |-> stock,
         Insuficiente |-> insuf,
         Falta |-> Falta(insuf, stock, units),
         SubUnits |-> Null, SubTotalWeight |-> Null, SubVolume |-> Null, SubFalta |-> Null,
         line |-> k]

\* line 135: grouped.setdefault(subcat, []).append(data)
SetDefaultAppend(g, subcat, data) ==
    IF \E k \in DOMAIN g : g[k].subcat = subcat
    THEN [k \in DOMAIN g |->
            IF g[k].subcat = subcat
            THEN [g[k] EXCEPT !.prods = Append(@, data)]
            ELSE g[k]]
    ELSE Append(g, [subcat |-> subcat, prods |-> <<data>>])

----------------------------------------------------------------------------
(* Sorting and assembling the report, lines 136-206 *)

\* x.get("SKU") or ""
SkuKey(row) == IF StrTruthy(row.SKU) THEN row.SKU ELSE ""

\* the order of Python strings on the SKUs the catalog holds
SkuRank(s) == CASE s = "" -> 0 [] s = "S1" -> 1 [] s = "S2" -> 2

RECURSIVE InsertBySku(_, _)
InsertBySku(sorted, row) ==
    \* after every row whose key is not greater: sorted() is stable
    IF sorted = <<>> THEN <<row>>
    ELSE IF SkuRank(SkuKey(sorted[Len(sorted)])) <= SkuRank(SkuKey(row))
         THEN Append(sorted, row)
         ELSE Append(InsertBySku(SubSeq(sorted, 1, Len(sorted) - 1), row),
                     sorted[Len(sorted)])

\* the rows left in document order
Unsorted(rows) == rows

RECURSIVE SortedBySku(_)
\* line 138: sorted(grouped[subcat], key=lambda x: x.get("SKU") or "")
SortedBySku(rows) ==
    IF rows = <<>> THEN <<>>
    ELSE InsertBySku(SortedBySku(SubSeq(rows, 1, Len(rows) - 1)), rows[Len(rows)])

\* pd.to_numeric(., errors="coerce") on one cell
ToNumeric(x) == IF IsNum(x) THEN x ELSE Null

RECURSIVE NumSum(_)
NumSum(vals) ==
    IF vals = <<>> THEN 0
    ELSE (IF IsNum(vals[1]) THEN vals[1] ELSE 0) + NumSum(Tail(vals))

\* Series.sum(skipna=False): NaN as soon as one cell is no number
SumSkipnaFalse(vals) ==
    IF \A k \in DOMAIN vals : IsNum(vals[k]) THEN NumSum(vals) ELSE Null

\* Series.sum(min_count=1): NaN when no cell is a number
SumMinCount1(vals) ==
    IF \E k \in DOMAIN vals : IsNum(vals[k]) THEN NumSum(vals) ELSE Null

Column(rows, c) == [k \in DOMAIN rows |-> ToNumeric(rows[k][c])]

\* lines 162-165: 0 if pd.isna(s) else s
ZeroIfNa(x) == IF IsNum(x) THEN x ELSE 0

\* lines 158-165 for one column
SubtotalSum(prods, c) == ZeroIfNa(SumMinCount1(Column(prods, c)))

\* line 174: round(sum_weight, 2), kept in 0.001 kg
RoundWeight2(x) == 10 * RoundDiv(x, 10)

\* lines 143-149
HeaderRow(subcat) ==
    [Product |-> [mark |-> "header", text |-> subcat],
     SKU |-> "", Units |-> Blank, NetWeight |-> Blank, TotalWeight |-> Blank,
     Volume |-> Blank, StockDisponible |-> Blank, Insuficiente |-> "", Falta |-> Blank,
     SubUnits |-> Blank, SubTotalWeight |-> Blank, SubVolume |-> Blank, SubFalta |-> Blank,
     line |-> 0]

\* lines 155-181; round(.,1), round(.,5) and round(.,0) leave the integer units,
\* the 5-decimal volumes and the integer shortfalls as they are
SubtotalRow(subcat, prods) ==
    [Product |-> [mark |-> "subtotal", text |-> subcat],
     SKU |-> "", Units |-> Blank, NetWeight |-> Blank, TotalWeight |-> Blank,
     Volume |-> Blank, StockDisponible |-> Blank, Insuficiente |-> "", Falta |-> Blank,
     SubUnits |-> SubtotalSum(prods, "Units"),
     SubTotalWeight |-> RoundWeight2(SubtotalSum(prods, "TotalWeight")),
     SubVolume |-> SubtotalSum(prods, "Volume"),
     SubFalta |-> SubtotalSum(prods, "Falta"),
     line |-> 0]

RECURSIVE Output(_)
\* lines 140-181
Output(g) ==
    IF g = <<>> THEN <<>>
    ELSE <<HeaderRow(g[1].subcat)>> \o g[1].prods
         \o <<SubtotalRow(g[1].subcat, g[1].prods)>> \o Output(Tail(g))

\* lines 194-197: the subtotal cells of the rows marked Subtotal, NaN filled with 0
FillSubtotals(rows) ==
    [k \in DOMAIN rows |->
        IF rows[k].Product.mark = "subtotal"
        THEN [rows[k] EXCEPT !.SubUnits = IF @ = Null THEN 0 ELSE @,
                             !.SubTotalWeight = IF @ = Null THEN 0 ELSE @,
                             !.SubVolume = IF @ = Null THEN 0 ELSE @,
                             !.SubFalta = IF @ = Null THEN 0 ELSE @]
        ELSE rows[k]]

----------------------------------------------------------------------------
(* The UI block, lines 229-317 *)

NumCols == {"Units", "SubUnits", "NetWeight", "TotalWeight", "SubTotalWeight",
            "Volume", "SubVolume", "StockDisponible", "Falta", "SubFalta"}

\* lines 241-242 and 279-280 on one row
CoerceRow(r) == [f \in DOMAIN r |-> IF f \in NumCols THEN ToNumeric(r[f]) ELSE r[f]]

CoerceAll(rows) == [k \in DOMAIN rows |-> CoerceRow(rows[k])]

\* the TOTAL row summed over the data columns instead of the subtotal columns
TotalsRowFromMembers(rows) ==
    [Product |-> [mark |-> "total", text |-> "TOTAL"],
     SKU |-> "", Units |-> Blank, NetWeight |-> Blank, TotalWeight |-> Blank,
     Volume |-> Blank, StockDisponible |-> Blank, Insuficiente |-> "", Falta |-> Blank,
     SubUnits |-> SumMinCount1(Column(rows, "Units")),
     SubTotalWeight |-> SumMinCount1(Column(rows, "TotalWeight")),
     SubVolume |-> SumMinCount1(Column(rows, "Volume")),
     SubFalta |-> SumMinCount1(Column(rows, "Falta")),
     line |-> 0]

\* lines 245-259
TotalsRow(rows) ==
    [Product |-> [mark |-> "total", text |-> "TOTAL"],
     SKU |-> "", Units |-> Blank, NetWeight |-> Blank, TotalWeight |-> Blank,
     Volume |-> Blank, StockDisponible |-> Blank, Insuficiente |-> "", Falta |-> Blank,
     SubUnits |-> SumMinCount1(Column(rows, "SubUnits")),
     SubTotalWeight |-> SumMinCount1(Column(rows, "SubTotalWeight")),
     SubVolume |-> SumMinCount1(Column(rows, "SubVolume")),
     SubFalta |-> SumMinCount1(Column(rows, "SubFalta")),
     line |-> 0]

\* lines 234-280
WithTotals(rows) == CoerceAll(Append(CoerceAll(rows), TotalsRow(CoerceAll(rows))))

\* max(pw, pv): pv only when pv > pw, and no comparison with NaN is true
PyMax(a, b) == IF IsNum(a) /\ IsNum(b) /\ b > a THEN b ELSE a

\* line 306, in 0.001 pallet from 0.001 kg
PalletsByWeight(total_weight) ==
    IF IsNum(total_weight) THEN RoundDiv(total_weight, PALLET_KG) ELSE Null

\* line 307, in 0.001 pallet from 0.00001 m3
PalletsByVolume(total_volume) ==
    IF IsNum(total_volume) THEN RoundDiv(total_volume, PALLET_M3 * 100) ELSE Null

\* line 308: max(1, int(np.ceil(max(pw, pv))))
Pallets(pw, pv) ==
    LET m == CeilDiv(PyMax(pw, pv), 1000)
    IN  IF m > 1 THEN m ELSE 1

\* lines 302-317; "x or 0" keeps NaN, which is true, and turns 0.0 into 0
Summary(rows) ==
    LET total_units == SumMinCount1(Column(rows, "Units"))
        total_weight == SumMinCount1(Column(rows, "TotalWeight"))
        total_volume == SumMinCount1(Column(rows, "Volume"))
        pw == PalletsByWeight(total_weight)
        pv == PalletsByVolume(total_volume)
    IN  [TotalUnits |-> total_units,
         TotalWeight |-> total_weight,
         TotalVolume |-> total_volume,
         PalletsByWeight |-> pw,
         PalletsByVolume |-> pv,
         PalletsNeeded |-> Pallets(pw, pv)]

NoSummary ==
    [TotalUnits |-> Null, TotalWeight |-> Null, TotalVolume |-> Null,
     PalletsByWeight |-> Null, PalletsByVolume |-> Null, PalletsNeeded |-> Null]

----------------------------------------------------------------------------
(* Inputs *)

Item(pid, id, units, weight, dims) ==
    [productId |-> pid, id |-> id, units |-> units, weight |-> weight, name |-> NoneS,
     width_cm |-> dims[1], height_cm |-> dims[2], depth_cm |-> dims[3]]

\* lines whose reference and quantity vary: catalog hits (P1, P2, P4 by productId,
\* P3 by id), an identifier the catalog lacks, and no identifier at all
RefItems ==
    {Item(r[1], r[2], u, Null, <<Null, Null, Null>>) :
        r \in {<<"P1", NoneS>>, <<"P2", NoneS>>, <<NoneS, "P3">>, <<"P4", NoneS>>,
               <<"PX", "P3">>, <<NoneS, NoneS>>},
        u \in {Absent, Null, 4, 20}}

\* lines whose own weight (0.0016 kg, 1400.4 kg) and dimensions vary
PhysItems ==
    {Item(r, NoneS, 1, w, d) :
        r \in {"P4", "PX"},
        w \in {Null, 16, 14004000},
        d \in {<<Null, Null, Null>>, <<10, Null, 5>>, <<3, 7, 3>>}}

ItemDomain == RefItems \cup PhysItems

ItemLists == UNION {[1..n -> ItemDomain] : n \in 0..MaxItems}

List(s) == [kind |-> "list", items |-> s]
NonList(k) == [kind |-> k, items |-> <<>>]

\* what the 'products' cell may hold: a list, or a value that is no list
FalsyKinds == {"None", "emptystr", "zero", "emptydict"}
TruthyKinds == {"NaN", "str", "dict", "int"}
ProductsDomain ==
    {List(s) : s \in ItemLists} \cup {NonList(k) : k \in FalsyKinds \cup TruthyKinds}

\* truth value of the cell
Truthy(v) == IF v.kind = "list" THEN v.items # <<>> ELSE v.kind \in TruthyKinds

\* line 80: row.get('products') or []
ItemsOrEmpty(v) == IF Truthy(v) THEN v ELSE List(<<>>)

\* the check of line 81 left out
IsListUnchecked(v) == TRUE

\* line 81: isinstance(items, list)
IsList(v) == v.kind = "list"

Chars == {"A", "a", "B"}
DocNumberDomain == [1..2 -> Chars]
DocColumns == UNION {[1..n -> DocNumberDomain] : n \in 0..MaxDocs}

----------------------------------------------------------------------------
(* get_row_index_by_docnumber, lines 72-75 *)

LowerChar(c) == CASE c = "A" -> "a" [] c = "B" -> "b" [] OTHER -> c

\* str.lower()
Lower(s) == [k \in DOMAIN s |-> LowerChar(s[k])]

\* df.index[df['docNumber'].str.lower() == lower_doc]
Matches(col, doc_number) == {k \in DOMAIN col : Lower(col[k]) = Lower(doc_number)}

Min(S) == CHOOSE m \in S : \A n \in S : m <= n

\* a DataFrame built from no documents has no 'docNumber' column
LookupRaises(col) == col = <<>>

KeyError(l) == [type |-> "KeyError", line |-> l]

\* line 75: the first match, or None
get_row_index_by_docnumber(col, doc_number) ==
    IF Matches(col, doc_number) # {} THEN Min(Matches(col, doc_number)) ELSE Null

----------------------------------------------------------------------------
(* The run of the UI block on a document that was found: lines 227-347 *)

Init ==
    /\ docNumbers = << <<"A", "B">> >>
    /\ doc_input = <<"a", "b">>
    /\ idx = get_row_index_by_docnumber(docNumbers, doc_input)
    /\ products \in ProductsDomain
    /\ items = <<>>
    /\ i = 0
    /\ grouped = <<>>
    /\ df_res = <<>>
    /\ summary = NoSummary
    /\ err = NoErr
    /\ nErrors = 0
    /\ pc = "call"

\* lines 344-345: the exception reaches the except clause, which reports it once
Raise(e) ==
    /\ err' = e
    /\ nErrors' = nErrors + 1
    /\ pc' = "error"

\* lines 79-84
Enter ==
    /\ pc = "call"
    /\ IF IsList(ItemsOrEmpty(products))
       THEN /\ items' = ItemsOrEmpty(products).items
            /\ pc' = "loop"
            /\ UNCHANGED <<err, nErrors>>
       ELSE /\ Raise(TypeError(82))
            /\ UNCHANGED items
    /\ UNCHANGED <<docNumbers, doc_input, idx, products, i, grouped, df_res, summary>>

\* lines 86-135, one pass of the loop
LoopBody ==
    /\ pc = "loop"
    /\ i < Len(items)
    /\ LET item == items[i + 1]
       IN  IF ItemError(item) = NoErr
           THEN /\ grouped' = SetDefaultAppend(grouped, Subcat(item), ItemData(item, i + 1))
                /\ i' = i + 1
                /\ UNCHANGED <<err, nErrors, pc>>
           ELSE /\ Raise(ItemError(item))
                /\ UNCHANGED <<grouped, i>>
    /\ UNCHANGED <<docNumbers, doc_input, idx, products, items, df_res, summary>>

\* lines 137-138
SortGroups ==
    /\ pc = "loop"
    /\ i = Len(items)
    /\ grouped' = [k \in DOMAIN grouped |->
                      [grouped[k] EXCEPT !.prods = SortedBySku(@)]]
    /\ pc' = "output"
    /\ UNCHANGED <<docNumbers, doc_input, idx, products, items, i, df_res, summary,
                   err, nErrors>>

\* lines 140-206
BuildReport ==
    /\ pc = "output"
    /\ df_res' = FillSubtotals(Output(grouped))
    /\ pc' = "returned"
    /\ UNCHANGED <<docNumbers, doc_input, idx, products, items, i, grouped, summary,
                   err, nErrors>>

\* lines 229-230
ReportEmpty ==
    /\ pc = "returned"
    /\ df_res = <<>>
    /\ pc' = "empty"
    /\ UNCHANGED <<docNumbers, doc_input, idx, products, items, i, grouped, df_res,
                   summary, err, nErrors>>

\* lines 232-280
AddTotals ==
    /\ pc = "returned"
    /\ df_res # <<>>
    /\ df_res' = WithTotals(df_res)
    /\ pc' = "totals"
    /\ UNCHANGED <<docNumbers, doc_input, idx, products, items, i, grouped, summary,
                   err, nErrors>>

\* lines 301-343; int() of NaN raises ValueError
PalletSummary ==
    /\ pc = "totals"
    /\ IF IsNum(PyMax(Summary(df_res).PalletsByWeight, Summary(df_res).PalletsByVolume))
       THEN /\ summary' = Summary(df_res)
            /\ pc' = "done"
            /\ UNCHANGED <<err, nErrors>>
       ELSE /\ Raise([type |-> "ValueError", line |-> 308])
            /\ UNCHANGED summary
    /\ UNCHANGED <<docNumbers, doc_input, idx, products, items, i, grouped, df_res>>

Next ==
    \/ Enter
    \/ LoopBody
    \/ SortGroups
    \/ BuildReport
    \/ ReportEmpty
    \/ AddTotals
    \/ PalletSummary

Spec == Init /\ [][Next]_vars

----------------------------------------------------------------------------
(* The lookup of the requested document: lines 222-226 *)

InitLookup ==
    /\ docNumbers \in DocColumns
    /\ doc_input \in DocNumberDomain
    /\ idx = Null
    /\ products = NonList("None")
    /\ items = <<>>
    /\ i = 0
    /\ grouped = <<>>
    /\ df_res = <<>>
    /\ summary = NoSummary
    /\ err = NoErr
    /\ nErrors = 0
    /\ pc = "lookup"

\* line 222 returns an index; line 226 goes on to the report
LookupFound ==
    /\ pc = "lookup"
    /\ ~LookupRaises(docNumbers)
    /\ get_row_index_by_docnumber(docNumbers, doc_input) # Null
    /\ idx' = get_row_index_by_docnumber(docNumbers, doc_input)
    /\ pc' = "call"
    /\ UNCHANGED <<docNumbers, doc_input, products, items, i, grouped, df_res, summary,
                   err, nErrors>>

\* lines 223-224: st.error("... not found.")
LookupNotFound ==
    /\ pc = "lookup"
    /\ ~LookupRaises(docNumbers)
    /\ get_row_index_by_docnumber(docNumbers, doc_input) = Null
    /\ idx' = Null
    /\ nErrors' = nErrors + 1
    /\ pc' = "notfound"
    /\ UNCHANGED <<docNumbers, doc_input, products, items, i, grouped, df_res, summary,
                   err>>

\* line 74 raises KeyError: 'docNumber'
LookupKeyError ==
    /\ pc = "lookup"
    /\ LookupRaises(docNumbers)
    /\ Raise(KeyError(74))
    /\ UNCHANGED <<docNumbers, doc_input, idx, products, items, i, grouped, df_res,
                   summary>>

NextLookup ==
    \/ LookupFound
    \/ LookupNotFound
    \/ LookupKeyError

SpecLookup == InitLookup /\ [][NextLookup]_vars

----------------------------------------------------------------------------
(* Properties *)

\* the rows of a report that carry the mark m
Marked(rows, m) == SelectSeq(rows, LAMBDA r : r.Product.mark = m)

\* the positions <<g, k>> of the line rows built so far
Built == {p \in (DOMAIN grouped) \X (1..Len(items)) : p[2] \in DOMAIN grouped[p[1]].prods}

BuiltRow(p) == grouped[p[1]].prods[p[2]]

\* the document line a built row came from
LineOf(r) == items[r.line]

\* a data column and the subtotal column that aggregates it
ColPairs == {<<"Units", "SubUnits">>, <<"TotalWeight", "SubTotalWeight">>,
             <<"Volume", "SubVolume">>, <<"Falta", "SubFalta">>}

Cells(rows, c) == [k \in DOMAIN rows |-> rows[k][c]]

AllNull(vals) == \A k \in DOMAIN vals : ~IsNum(vals[k])

\* C1: every built line is flagged iff its SKU is present and its stock (absent
\* counted as 0) is below the units; a flagged line has Falta = |stock - units| and
\* an unflagged line has an empty Falta.
C1_ShortageRule ==
    \A p \in Built :
        LET r == BuiltRow(p)
            flagged == r.Insuficiente # ""
            stock == IF IsNum(r.StockDisponible) THEN r.StockDisponible ELSE 0
        IN  /\ flagged <=> (StrTruthy(r.SKU) /\ stock < r.Units)
            /\ flagged => r.Falta = Abs(stock - r.Units)
            /\ ~flagged => r.Falta \in {Null, Blank}

\* C2: Pallets Needed is max(1, ceiling(max(W/1400, V/2))) of the exact quotients,
\* so it is at least 1 and its capacity covers the total weight and the total volume.
C2_PalletsCoverTotals ==
    pc = "done" =>
        LET w == ZeroIfNa(summary.TotalWeight)
            v == ZeroIfNa(summary.TotalVolume)
            n == summary.PalletsNeeded
        IN  /\ n >= 1
            /\ n * PALLET_KG * 1000 >= w
            /\ n * PALLET_M3 * 100000 >= v
            /\ n > 1 => \/ (n - 1) * PALLET_KG * 1000 < w
                        \/ (n - 1) * PALLET_M3 * 100000 < v

\* C3 as claimed: for each numeric column the TOTAL row equals the null-aware sum of
\* the subtotal rows, which equals the null-aware sum of the member rows.
C3_TotalIsNullAwareSumOfMembers ==
    pc = "done" =>
        \A cp \in ColPairs :
            LET total == df_res[Len(df_res)][cp[2]]
            IN  /\ total = SumMinCount1(Cells(Marked(df_res, "subtotal"), cp[2]))
                /\ total = SumMinCount1(Cells(Marked(df_res, "name"), cp[1]))

\* C3 as amended: the TOTAL row is the sum of the subtotal rows; it is a number, and
\* it is the sum of the member values with nulls counted as 0, exactly for units,
\* volume and shortfall and within 0.005 kg per category for the weight.
C3_TotalIsSumOfSubtotals ==
    pc = "done" =>
        \A cp \in ColPairs :
            LET total == df_res[Len(df_res)][cp[2]]
                subs == Marked(df_res, "subtotal")
                members == NumSum(Cells(Marked(df_res, "name"), cp[1]))
            IN  /\ IsNum(total)
                /\ total = NumSum(Cells(subs, cp[2]))
                /\ IF cp[1] = "TotalWeight"
                   THEN Abs(total - members) <= 5 * Len(subs)
                   ELSE total = members

\* C3 witness: a finished report whose TOTAL weight differs from the member weights
\* and whose TOTAL volume is 0 over members that all lack a volume
C3_Witness ==
    /\ pc = "done"
    /\ df_res[Len(df_res)].SubTotalWeight
         # NumSum(Cells(Marked(df_res, "name"), "TotalWeight"))
    /\ AllNull(Cells(Marked(df_res, "name"), "Volume"))
    /\ df_res[Len(df_res)].SubVolume = 0

InReport == pc \in {"returned", "totals", "done"}

\* C4 as claimed: a category subtotal is null iff every member value of the column
\* is null, and otherwise it is the sum of the non-null member values.
C4_SubtotalNullIffAllNull ==
    InReport =>
        \A g \in DOMAIN grouped : \A cp \in ColPairs :
            LET vals == Cells(grouped[g].prods, cp[1])
                sub == ToNumeric(Marked(df_res, "subtotal")[g][cp[2]])
            IN  /\ sub = Null <=> AllNull(vals)
                /\ ~AllNull(vals) => sub = NumSum(vals)

\* C4 as amended: a category subtotal is never null: it is 0 when every member value
\* of the column is null, and otherwise the sum of the non-null member values, the
\* subtotal rounded as its column is (the weight to 2 decimals).
C4_SubtotalZeroWhenAllNull ==
    InReport =>
        /\ Len(Marked(df_res, "subtotal")) = Len(grouped)
        /\ \A g \in DOMAIN grouped : \A cp \in ColPairs :
            LET vals == Cells(grouped[g].prods, cp[1])
                sub == Marked(df_res, "subtotal")[g][cp[2]]
            IN  /\ IsNum(sub)
                /\ AllNull(vals) => sub = 0
                /\ ~AllNull(vals) =>
                      IF cp[1] = "TotalWeight"
                      THEN sub % 10 = 0 /\ Abs(sub - NumSum(vals)) <= 5
                      ELSE sub = NumSum(vals)

\* C4 witness: a returned report with a category whose lines all lack a volume, so
\* that its volume subtotal is 0, while its units subtotal is the sum of the units
C4_Witness ==
    /\ pc = "returned"
    /\ \E g \in DOMAIN grouped :
          /\ Len(grouped[g].prods) = 2
          /\ AllNull(Cells(grouped[g].prods, "Volume"))
          /\ Marked(df_res, "subtotal")[g].SubVolume = 0
          /\ Marked(df_res, "subtotal")[g].SubUnits = 24

\* C5: a line resolved in the catalog is placed in the category its entry's
\* "Product Line" attribute names, in the default category only when that attribute
\* is absent or blank.
C5_CategoryIsProductLine ==
    \A p \in Built :
        InCatalog(ItemPid(LineOf(BuiltRow(p)))) =>
            grouped[p[1]].subcat = ProductLine(ItemInfo(LineOf(BuiltRow(p))).Attributes)


Mark(k) == df_res[k].Product.mark

\* the position of the header row that opens the category of row k
RECURSIVE HeaderOf(_)
HeaderOf(k) == IF k = 1 \/ Mark(k) = "header" THEN k ELSE HeaderOf(k - 1)

\* the first document line among the members of the category opened at header h
FirstLine(h) ==
    Min({df_res[k].line : k \in {j \in DOMAIN df_res : Mark(j) = "name" /\ HeaderOf(j) = h}})

\* C6: a finished report is, for each category in order of first appearance, one
\* header row, the category's lines sorted by SKU (absent SKU as "") and one subtotal
\* row, then one TOTAL row at the end; every line of the document is exactly one
\* member row, inside the header/subtotal pair of its own category.
C6_ReportLayout ==
    pc = "done" =>
        LET n == Len(df_res)
            headers == {k \in 1..n : Mark(k) = "header"}
            members == {k \in 1..n : Mark(k) = "name"}
        IN  /\ n >= 4
            /\ Mark(1) = "header"
            /\ Mark(n) = "total"
            /\ \A k \in 1..(n - 1) :
                  /\ Mark(k) # "total"
                  /\ Mark(k) = "header" => Mark(k + 1) = "name"
                  /\ Mark(k) = "name" => Mark(k + 1) \in {"name", "subtotal"}
                  /\ Mark(k) = "subtotal" => Mark(k + 1) \in {"header", "total"}
                  /\ Mark(k) = "subtotal" =>
                        df_res[k].Product.text = df_res[HeaderOf(k)].Product.text
                  /\ (Mark(k) = "name" /\ Mark(k + 1) = "name") =>
                        SkuRank(SkuKey(df_res[k])) <= SkuRank(SkuKey(df_res[k + 1]))
            /\ \A h1, h2 \in headers :
                  h1 < h2 => /\ df_res[h1].Product.text # df_res[h2].Product.text
                             /\ FirstLine(h1) < FirstLine(h2)
            /\ {df_res[k].line : k \in members} = 1..Len(items)
            /\ Cardinality(members) = Len(items)
            /\ \A k \in members :
                  /\ df_res[HeaderOf(k)].Product.text = Subcat(LineOf(df_res[k]))
                  /\ df_res[k].SKU = ItemSku(LineOf(df_res[k]))
                  /\ df_res[k].Units = ItemUnits(LineOf(df_res[k]))

\* C6 witness: a finished report whose two lines were swapped by the sort
C6_Witness ==
    /\ pc = "done"
    /\ Len(df_res) = 5
    /\ df_res[2].line = 2
    /\ df_res[3].line = 1
    /\ df_res[2].SKU = "S1"
    /\ df_res[3].SKU = "S2"

\* C7 as claimed: a line whose catalog entry has numeric width, height and depth
\* attributes has a volume.
C7_VolumeFromCatalogDims ==
    \A p \in Built :
        LET item == LineOf(BuiltRow(p))
        IN  (InCatalog(ItemPid(item)) /\ HasCatalogDims(ItemInfo(item).Attributes))
                => IsNum(BuiltRow(p).Volume)

\* C7 as amended: the volume of a line is non-null iff the line itself carries
\* width_cm, height_cm and depth_cm, and then it is width * height * depth / 1,000,000
\* rounded to 5 decimals; no missing dimension is imputed.
C7_VolumeFromLineDims ==
    \A p \in Built :
        LET item == LineOf(BuiltRow(p))
            vol == BuiltRow(p).Volume
            cm3 == item.width_cm * item.height_cm * item.depth_cm
        IN  /\ IsNum(vol) <=>
                  (IsNum(item.width_cm) /\ IsNum(item.height_cm) /\ IsNum(item.depth_cm))
            /\ IsNum(vol) => Abs(10 * vol - cm3) <= 5
            /\ ~IsNum(vol) => vol = Null

\* C7 witness: a catalog line with a rounded volume beside a line that lacks one
\* dimension and has no volume
C7_Witness ==
    \E p, q \in Built :
        /\ InCatalog(ItemPid(LineOf(BuiltRow(p))))
        /\ BuiltRow(p).Volume = 6
        /\ LineOf(BuiltRow(q)).width_cm = 10
        /\ LineOf(BuiltRow(q)).height_cm = Null
        /\ BuiltRow(q).Volume = Null

\* C8: the lookup never raises; it returns the first document whose number equals
\* the request ignoring case, and None exactly when there is none.
C8_LookupNeverRaises ==
    pc # "lookup" =>
        /\ err = NoErr
        /\ idx = Null <=> ~\E k \in DOMAIN docNumbers : Lower(docNumbers[k]) = Lower(doc_input)
        /\ idx # Null =>
              /\ idx \in DOMAIN docNumbers
              /\ Lower(docNumbers[idx]) = Lower(doc_input)
              /\ \A k \in 1..(idx - 1) : Lower(docNumbers[k]) # Lower(doc_input)

\* C9 as claimed: whenever the 'products' cell is not a list the call fails, the
\* failure is reported once, and no report is returned.
C9_NonListAlwaysFails ==
    (pc # "call" /\ products.kind # "list") =>
        /\ pc = "error"
        /\ err = TypeError(82)
        /\ nErrors = 1
        /\ df_res = <<>>

\* C9 as amended: a cell that is not a list and is true (a non-empty string or dict,
\* a non-zero number, NaN) makes the call fail with TypeError, reported once, with no
\* report; a cell that is not a list and is false (None, "", 0, {}) is taken as the
\* empty item list and gives the empty report.
C9_TruthyNonListFails ==
    (pc # "call" /\ products.kind # "list") =>
        IF Truthy(products)
        THEN /\ pc = "error"
             /\ err = TypeError(82)
             /\ nErrors = 1
             /\ df_res = <<>>
             /\ summary = NoSummary
        ELSE /\ pc \in {"loop", "output", "returned", "empty"}
             /\ items = <<>>
             /\ df_res = <<>>
             /\ err = NoErr
             /\ nErrors = 0

\* C9 witness: the call has failed on a cell that holds a non-empty string
C9_Witness ==
    /\ products = NonList("str")
    /\ pc = "error"
    /\ nErrors = 1

\* C10: a line whose net weight or units is null is still built, without raising,
\* with a null Total Weight; any other line has Total Weight = round(net * units, 3).
C10_NullPropagation ==
    /\ (pc = "error" /\ err.line \in {117, 118, 126}) =>
          /\ IsNum(ItemUnits(items[i + 1]))
          /\ IsNum(ItemNetWeight(items[i + 1]))
    /\ \A p \in Built :
          LET r == BuiltRow(p)
          IN  IF IsNum(r.NetWeight) /\ IsNum(r.Units)
              THEN r.TotalWeight = RoundDiv(r.NetWeight * r.Units, 10)
              ELSE r.TotalWeight = Null

====
